---------------------------- MODULE Spec2Model ----------------------------
(***************************************************************************)
(* The explorer client of the TradeSta verification scripts                *)
(* (src/scripts/utils/routescan_api.py, class RoutescanAPI): its file      *)
(* cache, the paginated log fetch, the batched contract-creation lookup,   *)
(* the normalisation of upstream envelopes and the rate limiter; the       *)
(* decoders of Web3Helper; and the scripts built on them: the detection of *)
(* new markets, the reporting scripts of phase 2 and the suite runners.    *)
(*                                                                         *)
(* Strings whose characters matter (addresses, cache keys) are sequences   *)
(* of code points; messages are sequences of words.                        *)
(***************************************************************************)
EXTENDS Integers, Sequences, FiniteSets, TLC

VARIABLES
    cache,              \* the cache directory: file name -> file content
    tip,                \* the chain: height of the latest block
    eventBlocks,        \* the chain: blocks that hold a matching event
    pc,                 \* where the client is inside its current operation
    args,               \* the arguments of the current operation
    page,               \* get_all_logs: local `page`
    all_events,         \* get_all_logs: local `all_events`
    i,                  \* get_contract_creation: loop index `i`
    all_results,        \* get_contract_creation: local `all_results`
    reqLog,             \* the requests the current operation has issued
    ret,                \* the outcome of the operation just completed
    prev,               \* get_all_logs: what the call before returned, if it asked the same
    now,                \* wall clock, in ticks
    last_request_time,  \* RoutescanAPI.last_request_time, in ticks
    sendTimes,          \* the times at which requests left the client
    inflight,           \* a request has been sent and not yet answered
    procs,              \* two script processes that run get_all_logs on one cache directory
    script,             \* detect_new_markets.py: the run under way, if any
    files,              \* the files the scripts keep beside the cache: name -> content
    runs                \* the script runs that have ended, oldest first

vars == <<cache, tip, eventBlocks, pc, args, page, all_events, i, all_results,
          reqLog, ret, prev, now, last_request_time, sendTimes, inflight, procs,
          script, files, runs>>

chainVars == <<tip, eventBlocks>>
logsVars == <<page, all_events>>
creationVars == <<i, all_results>>
clockVars == <<now, last_request_time, sendTimes, inflight>>
scriptVars == <<script, files, runs>>
clientVars == <<pc, args, page, all_events, i, all_results, reqLog, ret, prev>>

---------------------------------------------------------------------------
(* Bounds of the model. *)

MaxTip == 3             \* blocks the chain grows to
MaxOffset == 2          \* page sizes 1..MaxOffset
MaxAddrs == 3           \* addresses in one get_contract_creation call
MaxBatch == 2           \* batch sizes 1..MaxBatch
MaxTime == 12           \* ticks of wall clock
MaxSends == 3           \* requests followed by the rate-limiter model
WordBytes == 2          \* bytes of an ABI word (32 on chain)
AddressBytes == 1       \* bytes of an address (20 on chain)
MaxWords == 2           \* words in an event's data
MaxCalls == 2           \* calls of get_all_logs by one of two concurrent processes

---------------------------------------------------------------------------
(* Strings as sequences of code points. *)

Min(a, b) == IF a <= b THEN a ELSE b

\* str.lower() on one character: 'A'..'Z' -> 'a'..'z'
LowerChar(c) == IF c >= 65 /\ c <= 90 THEN c + 32 ELSE c

\* str.lower()
Lower(s) == [k \in 1..Len(s) |-> LowerChar(s[k])]

\* s[:n]
Prefix(s, n) == SubSeq(s, 1, Min(n, Len(s)))

\* Python's order on strings: lexicographic by code point, a proper prefix first.
StrLess(a, b) ==
    LET n == Min(Len(a), Len(b))
        differ == {k \in 1..n : a[k] # b[k]}
    IN IF differ = {} THEN Len(a) < Len(b)
       ELSE LET first == CHOOSE k \in differ : \A j \in differ : k <= j
            IN a[first] < b[first]

\* sorted(list of strings): insertion into an already sorted list
RECURSIVE Insert(_, _)
Insert(x, sortedSeq) ==
    IF sortedSeq = <<>> THEN <<x>>
    ELSE IF StrLess(Head(sortedSeq), x) THEN <<Head(sortedSeq)>> \o Insert(x, Tail(sortedSeq))
    ELSE <<x>> \o sortedSeq

RECURSIVE Sorted(_)
Sorted(strs) == IF strs = <<>> THEN <<>> ELSE Insert(Head(strs), Sorted(Tail(strs)))

\* sep.join(list of strings)
RECURSIVE Join(_, _)
Join(sep, strs) ==
    IF strs = <<>> THEN <<>>
    ELSE IF Len(strs) = 1 THEN Head(strs)
    ELSE Head(strs) \o sep \o Join(sep, Tail(strs))

Underscore == <<95>>

\* The items of a list.
Range(seq) == {seq[k] : k \in 1..Len(seq)}

\* The addresses the scripts look up.
MARKET_REGISTRY == <<48,120,54,48,70,49,54,66,48,57,65,49,53,70,48,99,51,50,49,48,98,52,48,97,55,51,53,98,49,57,65,54,98,65,70,50,51,53,100,100,49,56>>
PM_AVAX == <<48,120,56,100,48,55,102,97,57,97,99,56,98,52,98,102,56,51,51,102,48,57,57,102,98,50,52,57,55,49,100,50,97,56,48,56,56,55,52,99,50,53>>
PM_BTC == <<48,120,53,98,100,48,55,56,54,56,57,99,51,53,56,99,97,50,99,54,52,100,97,102,102,56,55,54,49,100,98,102,56,99,102,100,100,102,99,53,49,102>>

Addresses == {MARKET_REGISTRY, PM_AVAX, PM_BTC}


---------------------------------------------------------------------------
(* JSON values and upstream envelopes. *)

JList(v) == [type |-> "list", val |-> v]
JStr(v) == [type |-> "str", val |-> v]
JObj(v) == [type |-> "dict", val |-> v]

\* Python truthiness of a JSON value: empty containers and strings are false.
Truthy(j) == j.val # <<>>

\* `pat in msg` on word sequences: pat is a contiguous part of msg.
Contains(msg, pat) ==
    \E k \in 1..(Len(msg) - Len(pat) + 1) : SubSeq(msg, k, k + Len(pat) - 1) = pat

NoRecordsFound == <<"No", "records", "found">>
NOTOK == <<"NOTOK">>
OK == <<"OK">>

\* An answer of the explorer: the HTTP exchange, then the JSON envelope.
Envelope(status, message, result) ==
    [http |-> "ok", status |-> status, message |-> message, result |-> result]

\* requests.get timing out, or raise_for_status() on a non-2xx answer.
TransportFailure == [http |-> "error", status |-> "0", message |-> <<>>, result |-> JStr(<<>>)]

\* One request of an operation: what was asked and what came back.
Exchange(req, resp) == [req |-> req, resp |-> resp]

\* What _make_request hands back: an exception, or the data.
Raised(error) == [raised |-> TRUE, error |-> error, data |-> [status |-> "", result |-> JList(<<>>)]]
Returned(data) == [raised |-> FALSE, error |-> <<>>, data |-> data]

\* _make_request after the exchange: raise_for_status, then the envelope's status.
MakeRequestMissesNotok(resp) ==
    IF resp.http # "ok" THEN Raised(<<"HTTPError">>)
    ELSE IF resp.status # "1" THEN
        IF Contains(resp.message, NoRecordsFound)
        THEN Returned([status |-> "1", result |-> JList(<<>>)])
        ELSE Raised(<<"API", "error:">> \o
                    (IF resp.message # <<>> THEN resp.message ELSE <<"Unknown", "error">>))
    ELSE Returned([status |-> resp.status, result |-> resp.result])

MakeRequest(resp) ==
    IF resp.http # "ok" THEN Raised(<<"HTTPError">>)
    ELSE IF resp.status # "1" THEN
        IF Contains(resp.message, NoRecordsFound) \/ resp.message = NOTOK
        THEN Returned([status |-> "1", result |-> JList(<<>>)])
        ELSE Raised(<<"API", "error:">> \o
                    (IF resp.message # <<>> THEN resp.message ELSE <<"Unknown", "error">>))
    ELSE Returned([status |-> resp.status, result |-> resp.result])

---------------------------------------------------------------------------
(* The outcome of an operation, as its caller sees it. *)

\* No script is running.
NoScript == [name |-> "none", opt |-> "", from_block |-> 0, current_block |-> 0]

NoRet ==
    [op |-> "none", args |-> <<>>, outcome |-> "none", value |-> <<>>,
     error |-> <<>>, hit |-> FALSE, reqs |-> <<>>, repeated |-> FALSE,
     same |-> FALSE, fresh |-> FALSE]

\* The operation returns `value`.
Return(op, a, value, hit, reqs) ==
    [op |-> op, args |-> a, outcome |-> "return", value |-> value,
     error |-> <<>>, hit |-> hit, reqs |-> reqs, repeated |-> FALSE,
     same |-> FALSE, fresh |-> FALSE]

\* The operation raises `error`.
Raise(op, a, error, reqs) ==
    [op |-> op, args |-> a, outcome |-> "raise", value |-> <<>>,
     error |-> error, hit |-> FALSE, reqs |-> reqs, repeated |-> FALSE,
     same |-> FALSE, fresh |-> FALSE]

\* The operation is over: the client is between operations again.
Complete(r) ==
    /\ pc' = "idle"
    /\ ret' = r
    /\ prev' = <<>>
    /\ args' = <<>>
    /\ reqLog' = <<>>

\* The operation goes on past its first lines.
Enter(label, a) ==
    /\ pc' = label
    /\ args' = a
    /\ reqLog' = <<>>
    /\ ret' = NoRet

\* cache_file.exists()
Exists(file) == file \in DOMAIN cache

\* open(cache_file, 'w'); json.dump(content, f)
Write(file, content) ==
    cache' = [f \in DOMAIN cache \cup {file} |-> IF f = file THEN content ELSE cache[f]]

---------------------------------------------------------------------------
(* get_contract_creation *)

\* The contracts the explorer has a creation record for.
Deployed == {MARKET_REGISTRY, PM_AVAX, PM_BTC}

CreationRecord(a) == [contractAddress |-> Lower(a)]

\* The records of the deployed addresses among `batch`, in request order.
RECURSIVE CreationRecords(_)
CreationRecords(batch) ==
    IF batch = <<>> THEN <<>>
    ELSE (IF \E d \in Deployed : Lower(d) = Lower(Head(batch))
          THEN <<CreationRecord(Head(batch))>> ELSE <<>>)
         \o CreationRecords(Tail(batch))

\* The failures an operation of the client meets: a transport failure, a
\* failure envelope, and a failure envelope whose message is NOTOK.
OpFailures ==
    { TransportFailure,
      Envelope("0", NOTOK, JStr(<<"Max", "rate", "limit", "reached">>)),
      Envelope("0", <<"Invalid", "API", "Key">>, JStr(<<>>)) }

\* The explorer's possible answers to getcontractcreation for `batch`.
CreationResponses(batch) ==
    { IF CreationRecords(batch) # <<>>
      THEN Envelope("1", OK, JList(CreationRecords(batch)))
      ELSE Envelope("0", NoRecordsFound, JList(<<>>)) } \cup OpFailures

KeyLen == 32

\* "_".join(sorted([a.lower() for a in batch]))
CreationCacheKey(batch) == Join(Underscore, Sorted([k \in 1..Len(batch) |-> Lower(batch[k])]))

\* cache_dir / f"creation_{cache_key[:32]}.json"
CreationCacheFile(batch) == <<"creation", Prefix(CreationCacheKey(batch), KeyLen)>>

\* Lines 161 and 191: cache_file.exists()
CreationCacheHitNever(batch) == FALSE

CreationCacheHit(batch) == Exists(CreationCacheFile(batch))

\* addresses[i:i+batch_size]
BatchFromStart(addresses, from, batch_size) ==
    SubSeq(addresses, 1, Min(batch_size, Len(addresses)))

Batch(addresses, from, batch_size) ==
    SubSeq(addresses, from + 1, Min(from + batch_size, Len(addresses)))

\* Lists of at most n pairwise distinct addresses out of S.
DistinctLists(S, n) ==
    UNION { { s \in [1..m -> S] : \A j, k \in 1..m : j # k => s[j] # s[k] } : m \in 1..n }

AddressLists == DistinctLists(Addresses, MaxAddrs)

\* Lines 156-163: the call, and for a short list the look into the cache.
CallGetContractCreation(addresses, batch_size) ==
    /\ pc = "idle"
    /\ LET a == [addresses |-> addresses, batch_size |-> batch_size]
           cache_file == CreationCacheFile(addresses)
       IN IF Len(addresses) <= batch_size /\ CreationCacheHit(addresses)
          THEN /\ Complete(Return("get_contract_creation", a, cache[cache_file], TRUE, <<>>))
               /\ UNCHANGED <<cache, creationVars>>
          ELSE /\ Enter(IF Len(addresses) <= batch_size THEN "creation_single"
                        ELSE "creation_batch", a)
               /\ i' = 0
               /\ all_results' = <<>>
               /\ UNCHANGED <<cache, prev>>
    /\ UNCHANGED <<chainVars, logsVars, clockVars, procs, scriptVars>>

\* Lines 165-181: the single request; a failure falls through to the batches.
CreationSingleRequest ==
    /\ pc = "creation_single"
    /\ \E resp \in CreationResponses(args.addresses) :
         LET r == MakeRequest(resp)
             reqs == Append(reqLog, Exchange(args.addresses, resp))
         IN IF ~r.raised
            THEN /\ Write(CreationCacheFile(args.addresses), r.data.result.val)
                 /\ Complete(Return("get_contract_creation", args, r.data.result.val, FALSE, reqs))
            ELSE /\ pc' = "creation_batch"
                 /\ reqLog' = reqs
                 /\ UNCHANGED <<cache, args, ret, prev>>
    /\ UNCHANGED <<creationVars, chainVars, logsVars, clockVars, procs, scriptVars>>

\* Lines 186-208: one turn of the loop over the batches.
CreationBatchStep ==
    /\ pc = "creation_batch"
    /\ i < Len(args.addresses)
    /\ LET batch == Batch(args.addresses, i, args.batch_size)
           cache_file == CreationCacheFile(batch)
       IN IF CreationCacheHit(batch)
          THEN /\ all_results' = all_results \o cache[cache_file]
               /\ i' = i + args.batch_size
               /\ UNCHANGED <<cache, pc, args, reqLog, ret, prev>>
          ELSE \E resp \in CreationResponses(batch) :
                 LET r == MakeRequest(resp)
                     reqs == Append(reqLog, Exchange(batch, resp))
                 IN IF r.raised
                    THEN /\ Complete(Raise("get_contract_creation", args, r.error, reqs))
                         /\ i' = 0
                         /\ all_results' = <<>>
                         /\ UNCHANGED cache
                    ELSE /\ Write(cache_file, r.data.result.val)
                         /\ all_results' = all_results \o r.data.result.val
                         /\ i' = i + args.batch_size
                         /\ reqLog' = reqs
                         /\ UNCHANGED <<pc, args, ret, prev>>
    /\ UNCHANGED <<chainVars, logsVars, clockVars, procs, scriptVars>>

\* Line 210: the loop is over.
CreationReturn ==
    /\ pc = "creation_batch"
    /\ i >= Len(args.addresses)
    /\ Complete(Return("get_contract_creation", args, all_results, FALSE, reqLog))
    /\ i' = 0
    /\ all_results' = <<>>
    /\ UNCHANGED <<cache, chainVars, logsVars, clockVars, procs, scriptVars>>

GetContractCreation(lists) ==
    \/ \E addresses \in lists, batch_size \in 1..MaxBatch :
         CallGetContractCreation(addresses, batch_size)
    \/ CreationSingleRequest
    \/ CreationBatchStep
    \/ CreationReturn

---------------------------------------------------------------------------
(* The chain and the explorer's log search. *)

\* A block is mined; it may hold an event that matches the filter.
AdvanceChain(withEvent) ==
    /\ tip < MaxTip
    /\ tip' = tip + 1
    /\ eventBlocks' = IF withEvent THEN eventBlocks \cup {tip + 1} ELSE eventBlocks
    /\ UNCHANGED <<cache, pc, args, logsVars, creationVars, reqLog, ret, prev, clockVars, procs, scriptVars>>

\* The blocks of a set in increasing order.
RECURSIVE Ascending(_)
Ascending(blocks) ==
    IF blocks = {} THEN <<>>
    ELSE LET b == CHOOSE x \in blocks : \A y \in blocks : x <= y
         IN <<b>> \o Ascending(blocks \ {b})

\* The events of the filter in [fromBlock, toBlock], oldest first; an event
\* is named by its block.
Matching(q) == Ascending({b \in eventBlocks : q.from_block <= b /\ b <= q.to_block})

\* The explorer's page `p` of `offset` events.
PageOf(events, p, offset) == SubSeq(events, (p - 1) * offset + 1, Min(p * offset, Len(events)))

\* The explorer's possible answers to getLogs: the page, or a failure.
LogsResponses(q, p) ==
    { IF PageOf(Matching(q), p, q.offset) # <<>>
      THEN Envelope("1", OK, JList(PageOf(Matching(q), p, q.offset)))
      ELSE Envelope("0", NoRecordsFound, JList(<<>>)) } \cup OpFailures

---------------------------------------------------------------------------
(* get_logs and get_all_logs *)

DefaultToBlock == 99999999

\* Lines 243-244: get_logs hands back the result of the envelope.
GetLogs(resp) == MakeRequest(resp)

\* cache_dir / "logs" / f"addr_{address[:10]}_t0_.._t1_.._fb_{from_block}_tb_{to_block}.json";
\* the topics are those of the one filter of the model.
LogsCacheFile(q) == <<"logs", Prefix(q.address, 10), q.from_block, q.to_block>>

\* Lines 316-327: what json.dump writes into the cache file.
LogsCacheContent(q, pages, events) ==
    [query |-> [address |-> q.address, from_block |-> q.from_block, to_block |-> q.to_block],
     total_pages |-> pages,
     total_events |-> Len(events),
     events |-> events]

\* Line 315: open(cache_file, 'w') has created or truncated the file, and
\* json.dump has not yet written all of it.
Incomplete == [partial |-> TRUE]
IsIncomplete(content) == "partial" \in DOMAIN content

\* Line 276: cache_file.exists()
LogsCacheHitNever(q) == FALSE

LogsCacheHitWhenComplete(q) ==
    Exists(LogsCacheFile(q)) /\ ~IsIncomplete(cache[LogsCacheFile(q)])

LogsCacheHit(q) == Exists(LogsCacheFile(q))

\* Line 306: the page is the last one.
IsLastPageAtMost(events, offset) == Len(events) <= offset

IsLastPageNever(events, offset) == FALSE

IsLastPage(events, offset) == Len(events) < offset

\* The parameters that make two queries the same query.
SameQuery(q1, q2) ==
    /\ q1.address = q2.address
    /\ q1.from_block = q2.from_block
    /\ q1.to_block = q2.to_block

\* What the call before returned, if it was the same query and returned.
Before(q) ==
    IF ret.op = "get_all_logs" /\ ret.outcome = "return" /\ SameQuery(ret.args, q)
    THEN <<ret.value>> ELSE <<>>

\* The outcome of get_all_logs with what an observer of the call knows: whether
\* it repeats the call before it, whether it returns the same, and whether it
\* returns what the explorer holds for the query at this moment.
LogsReturn(q, events, hit, reqs, before) ==
    [Return("get_all_logs", q, events, hit, reqs) EXCEPT
        !.repeated = before # <<>>,
        !.same = before = <<events>>,
        !.fresh = events = Matching(q)]

\* The queries of the scripts: from a start block to a block, or to the tip.
LogQueries(fromBlocks, toBlocks, offsets) ==
    [address : {MARKET_REGISTRY}, from_block : fromBlocks, to_block : toBlocks,
     offset : offsets]

\* Lines 263-286: the call, the look into the cache.
CallGetAllLogs(q) ==
    /\ pc = "idle"
    /\ IF LogsCacheHit(q)
       THEN /\ Complete(LogsReturn(q, cache[LogsCacheFile(q)].events, TRUE, <<>>, Before(q)))
            /\ UNCHANGED logsVars
       ELSE /\ Enter("logs_fetch", q)
            /\ prev' = Before(q)
            /\ page' = 1
            /\ all_events' = <<>>
    /\ UNCHANGED <<cache, chainVars, creationVars, clockVars, procs, scriptVars>>

\* Lines 288-329: one turn of the loop, and after the last one the cache file.
FetchPage ==
    /\ pc = "logs_fetch"
    /\ \E resp \in LogsResponses(args, page) :
         LET r == GetLogs(resp)
             events == r.data.result.val
             reqs == Append(reqLog, Exchange(page, resp))
             gathered == all_events \o events
         IN IF r.raised
            THEN /\ Complete(Raise("get_all_logs", args, r.error, reqs))
                 /\ page' = 1
                 /\ all_events' = <<>>
                 /\ UNCHANGED cache
            ELSE IF events = <<>> \/ IsLastPage(events, args.offset)
            THEN /\ Write(LogsCacheFile(args), LogsCacheContent(args, page, gathered))
                 /\ Complete(LogsReturn(args, gathered, FALSE, reqs, prev))
                 /\ page' = 1
                 /\ all_events' = <<>>
            ELSE /\ all_events' = gathered
                 /\ page' = page + 1
                 /\ reqLog' = reqs
                 /\ UNCHANGED <<cache, pc, args, ret, prev>>
    /\ UNCHANGED <<chainVars, creationVars, clockVars, procs, scriptVars>>

GetAllLogs(queries) ==
    \/ \E q \in queries : CallGetAllLogs(q)
    \/ FetchPage

---------------------------------------------------------------------------
(* get_all_logs run by two script processes on one cache directory. What a  *)
(* process does to the file system is a step of its own: the exists() test, *)
(* the read, open(.., 'w') and the end of json.dump.                        *)

Procs == {1, 2}

\* The query both scripts make.
SharedQuery == CHOOSE q \in LogQueries({1}, {DefaultToBlock}, {MaxOffset}) : TRUE

\* A process that has not called get_all_logs yet.
NotCalled ==
    [pc |-> "idle", page |-> 1, all_events |-> <<>>, calls |-> 0,
     outcome |-> "none", wrote |-> FALSE]

\* Process p calls get_all_logs.
ProcCall(p) ==
    /\ procs[p].pc = "idle"
    /\ procs[p].calls < MaxCalls
    /\ procs' = [procs EXCEPT ![p].pc = "exists", ![p].calls = @ + 1, ![p].outcome = "none"]
    /\ UNCHANGED <<cache, chainVars, clientVars, clockVars, scriptVars>>

\* Line 276: if cache_file.exists()
ProcExists(p) ==
    /\ procs[p].pc = "exists"
    /\ procs' = [procs EXCEPT ![p].pc = IF LogsCacheHit(SharedQuery) THEN "load" ELSE "fetch",
                              ![p].page = 1, ![p].all_events = <<>>]
    /\ UNCHANGED <<cache, chainVars, clientVars, clockVars, scriptVars>>

\* Lines 277-280: json.load(f) of the file as it is at this moment; a file
\* that is not written to its end is no JSON document.
ProcLoad(p) ==
    /\ procs[p].pc = "load"
    /\ procs' = [procs EXCEPT
           ![p].pc = "idle",
           ![p].outcome = IF IsIncomplete(cache[LogsCacheFile(SharedQuery)])
                          THEN "JSONDecodeError" ELSE "return",
           ![p].all_events = IF IsIncomplete(cache[LogsCacheFile(SharedQuery)])
                             THEN <<>> ELSE cache[LogsCacheFile(SharedQuery)].events]
    /\ UNCHANGED <<cache, chainVars, clientVars, clockVars, scriptVars>>

\* Lines 288-310: one turn of the loop.
ProcFetchPage(p) ==
    /\ procs[p].pc = "fetch"
    /\ \E resp \in LogsResponses(SharedQuery, procs[p].page) :
         LET r == GetLogs(resp)
             events == r.data.result.val
             gathered == procs[p].all_events \o events
         IN IF r.raised
            THEN procs' = [procs EXCEPT ![p].pc = "idle", ![p].outcome = "raise",
                                        ![p].page = 1, ![p].all_events = <<>>]
            ELSE IF events = <<>> \/ IsLastPage(events, SharedQuery.offset)
            THEN procs' = [procs EXCEPT ![p].pc = "open", ![p].all_events = gathered]
            ELSE procs' = [procs EXCEPT ![p].page = @ + 1, ![p].all_events = gathered]
    /\ UNCHANGED <<cache, chainVars, clientVars, clockVars, scriptVars>>

\* Line 315: open(cache_file, 'w')
ProcOpen(p) ==
    /\ procs[p].pc = "open"
    /\ Write(LogsCacheFile(SharedQuery), Incomplete)
    /\ procs' = [procs EXCEPT ![p].pc = "dump", ![p].wrote = TRUE]
    /\ UNCHANGED <<chainVars, clientVars, clockVars, scriptVars>>

\* Lines 316-329: json.dump ends, the file is closed, the events are returned.
ProcDump(p) ==
    /\ procs[p].pc = "dump"
    /\ Write(LogsCacheFile(SharedQuery),
             LogsCacheContent(SharedQuery, procs[p].page, procs[p].all_events))
    /\ procs' = [procs EXCEPT ![p].pc = "idle", ![p].outcome = "return"]
    /\ UNCHANGED <<chainVars, clientVars, clockVars, scriptVars>>

---------------------------------------------------------------------------
(* _make_request, get_logs and the transaction lookups as operations. *)

Messages ==
    { OK, NoRecordsFound, NOTOK,
      <<"Query", "failed:", "No", "records", "found", "in", "range">>,
      <<"NOTOK", "-", "Query", "Timeout">>,
      <<"Invalid", "API", "Key">>,
      <<>> }

\* Every envelope the explorer may answer with, and a transport failure.
AllResponses ==
    { Envelope(status, message, result) :
        status \in {"1", "0"}, message \in Messages,
        result \in {JList(<<>>), JList(<<1, 2>>), JStr(<<"Max", "rate", "limit", "reached">>)} }
    \cup {TransportFailure}

\* Lines 36-52 as an operation of its own.
CallMakeRequest ==
    /\ pc = "idle"
    /\ \E resp \in AllResponses :
         LET r == MakeRequest(resp)
             reqs == <<Exchange("request", resp)>>
         IN Complete(IF r.raised THEN Raise("_make_request", <<>>, r.error, reqs)
                     ELSE Return("_make_request", <<>>, r.data, FALSE, reqs))
    /\ UNCHANGED <<cache, chainVars, logsVars, creationVars, clockVars, procs, scriptVars>>

\* Lines 227-244: one page, whatever the explorer answers.
CallGetLogs(q, p) ==
    /\ pc = "idle"
    /\ \E resp \in AllResponses :
         LET r == GetLogs(resp)
             reqs == <<Exchange(p, resp)>>
         IN Complete(IF r.raised THEN Raise("get_logs", q, r.error, reqs)
                     ELSE Return("get_logs", q, r.data.result.val, FALSE, reqs))
    /\ UNCHANGED <<cache, chainVars, logsVars, creationVars, clockVars, procs, scriptVars>>

TxHashes == {"0xaa", "0xbb"}

\* The explorer's possible answers to a transaction lookup.
TransactionResponses(tx_hash) ==
    { Envelope("1", OK, JObj(<<tx_hash>>)), Envelope("0", NoRecordsFound, JList(<<>>)) }
    \cup OpFailures

\* Lines 331-351: get_transaction and get_transaction_receipt.
CallGetTransaction(op, tx_hash) ==
    /\ pc = "idle"
    /\ \E resp \in TransactionResponses(tx_hash) :
         LET r == MakeRequest(resp)
             reqs == <<Exchange(tx_hash, resp)>>
         IN Complete(IF r.raised THEN Raise(op, tx_hash, r.error, reqs)
                     ELSE Return(op, tx_hash, r.data.result.val, FALSE, reqs))
    /\ UNCHANGED <<cache, chainVars, logsVars, creationVars, clockVars, procs, scriptVars>>

---------------------------------------------------------------------------
(* get_contract_abi and get_contract_source *)

\* The text of a verified contract's ABI, and what json.loads makes of it.
AbiText == <<"[{\"type\":\"function\"}]">>
AbiValue == <<[type |-> "function"]>>

NotVerified == <<"Contract", "source", "code", "not", "verified">>

\* json.loads(x): a TypeError unless x is a string, a JSONDecodeError unless
\* the string is JSON.
JsonLoads(j) ==
    IF j.type # "str" THEN [raised |-> TRUE, error |-> <<"TypeError">>, val |-> <<>>]
    ELSE IF j.val = AbiText THEN [raised |-> FALSE, error |-> <<>>, val |-> AbiValue]
    ELSE [raised |-> TRUE, error |-> <<"JSONDecodeError">>, val |-> <<>>]

\* The explorer's possible answers to getabi: the ABI, "not verified", no data
\* for the address, or a failure.
AbiResponses(address) ==
    { Envelope("1", OK, JStr(AbiText)),
      Envelope("0", NOTOK, JStr(NotVerified)),
      Envelope("0", NoRecordsFound, JList(<<>>)) } \cup OpFailures

AbiCacheFile(address) == <<"abi", Lower(address)>>

\* Lines 68-95
GetContractAbi(address) ==
    /\ pc = "idle"
    /\ LET cache_file == AbiCacheFile(address)
       IN IF Exists(cache_file)
          THEN /\ Complete(Return("get_contract_abi", address, cache[cache_file], TRUE, <<>>))
               /\ UNCHANGED cache
          ELSE \E resp \in AbiResponses(address) :
                 LET r == MakeRequest(resp)
                     abi == JsonLoads(r.data.result)
                     reqs == <<Exchange(address, resp)>>
                     result == [address |-> Lower(address), abi |-> abi.val, cached |-> FALSE]
                 IN IF r.raised
                    THEN Complete(Raise("get_contract_abi", address, r.error, reqs)) /\ UNCHANGED cache
                    ELSE IF abi.raised
                    THEN Complete(Raise("get_contract_abi", address, abi.error, reqs)) /\ UNCHANGED cache
                    ELSE /\ Write(cache_file, result)
                         /\ Complete(Return("get_contract_abi", address, result, FALSE, reqs))
    /\ UNCHANGED <<chainVars, logsVars, creationVars, clockVars, procs, scriptVars>>

SourceMetadata == [ContractName |-> "MarketRegistry"]

\* The explorer's possible answers to getsourcecode.
SourceResponses(address) ==
    { Envelope("1", OK, JList(<<SourceMetadata>>)),
      Envelope("0", NoRecordsFound, JList(<<>>)) } \cup OpFailures

SourceCacheFile(address) == <<"source", Lower(address)>>

\* Lines 118-139
GetContractSource(address) ==
    /\ pc = "idle"
    /\ LET cache_file == SourceCacheFile(address)
       IN IF Exists(cache_file)
          THEN /\ Complete(Return("get_contract_source", address, cache[cache_file], TRUE, <<>>))
               /\ UNCHANGED cache
          ELSE \E resp \in SourceResponses(address) :
                 LET r == MakeRequest(resp)
                     reqs == <<Exchange(address, resp)>>
                     \* data["result"][0] if data["result"] else {}
                     found == IF Truthy(r.data.result) THEN <<r.data.result.val[1]>> ELSE <<>>
                     result == [metadata |-> found, address |-> Lower(address), cached |-> FALSE]
                 IN IF r.raised
                    THEN Complete(Raise("get_contract_source", address, r.error, reqs)) /\ UNCHANGED cache
                    ELSE /\ Write(cache_file, result)
                         /\ Complete(Return("get_contract_source", address, result, FALSE, reqs))
    /\ UNCHANGED <<chainVars, logsVars, creationVars, clockVars, procs, scriptVars>>

---------------------------------------------------------------------------
(* The rate limiter. Time is counted in ticks of a tenth of a second. *)

min_request_interval == 5

\* Lines 31-33: the time _rate_limit sleeps.
SleepTimeNone(elapsed) == 0

SleepTime(elapsed) ==
    IF elapsed < min_request_interval THEN min_request_interval - elapsed ELSE 0

\* Time passes while the client does something else.
Tick ==
    /\ now < MaxTime
    /\ now' = now + 1
    /\ UNCHANGED <<cache, chainVars, pc, args, logsVars, creationVars, reqLog, ret, prev,
                   last_request_time, sendTimes, inflight, procs, scriptVars>>

\* Lines 38-40: _make_request calls _rate_limit, which sleeps (time.sleep may
\* sleep longer than asked) and notes the time; then the request leaves.
RateLimitAndSend ==
    /\ ~inflight
    /\ Len(sendTimes) < MaxSends
    /\ \E over \in {0, 1} :
         LET elapsed == now - last_request_time
             woke == IF SleepTime(elapsed) > 0 THEN now + SleepTime(elapsed) + over ELSE now
         IN /\ now' = woke
            /\ last_request_time' = woke
            /\ sendTimes' = Append(sendTimes, woke)
    /\ inflight' = TRUE
    /\ UNCHANGED <<cache, chainVars, pc, args, logsVars, creationVars, reqLog, ret, prev, procs, scriptVars>>

\* Lines 40-52: the answer arrives.
Respond ==
    /\ inflight
    /\ inflight' = FALSE
    /\ \E resp \in {Envelope("1", OK, JList(<<>>)), TransportFailure} :
         LET r == MakeRequest(resp)
             reqs == <<Exchange("request", resp)>>
         IN Complete(IF r.raised THEN Raise("_make_request", <<>>, r.error, reqs)
                     ELSE Return("_make_request", <<>>, r.data, FALSE, reqs))
    /\ UNCHANGED <<cache, chainVars, logsVars, creationVars, now, last_request_time, sendTimes,
                   procs, scriptVars>>

---------------------------------------------------------------------------
(* The decode helpers of src/scripts/utils/web3_helpers.py (class           *)
(* Web3Helper). A hex string is a sequence of code points; an ABI word has  *)
(* WordBytes bytes and an address AddressBytes bytes.                       *)

RECURSIVE Pow(_, _)
Pow(b, e) == IF e = 0 THEN 1 ELSE b * Pow(b, e - 1)

\* 2**255 and 2**256 for a word of WordBytes bytes.
Half == Pow(2, 8 * WordBytes - 1)
Full == Pow(2, 8 * WordBytes)

\* An Optional value: None, or the value.
None == <<>>
Some(v) == <<v>>

\* What a helper hands back: an exception, or an Optional value.
Raises(error) == [raised |-> TRUE, error |-> error, val |-> None]
Gives(val) == [raised |-> FALSE, error |-> <<>>, val |-> val]

\* "0x"
Ox == <<48, 120>>

\* The value of a hex digit ('0'-'9', 'a'-'f', 'A'-'F'), -1 for any other character.
HexVal(c) ==
    IF c >= 48 /\ c <= 57 THEN c - 48
    ELSE IF c >= 97 /\ c <= 102 THEN c - 87
    ELSE IF c >= 65 /\ c <= 70 THEN c - 55
    ELSE -1

IsHex(s) == \A k \in 1..Len(s) : HexVal(s[k]) >= 0

\* bytes.fromhex(s): a ValueError for a character that is no hex digit and
\* for an odd number of digits.
FromHex(s) ==
    IF ~IsHex(s) \/ Len(s) % 2 # 0 THEN Raises(<<"ValueError">>)
    ELSE Gives([k \in 1..(Len(s) \div 2) |-> 16 * HexVal(s[2 * k - 1]) + HexVal(s[2 * k])])

\* s[n:]
DropFirst(s, n) == SubSeq(s, Min(n, Len(s)) + 1, Len(s))

\* s[-n:]
TakeLast(s, n) == SubSeq(s, Len(s) - Min(n, Len(s)) + 1, Len(s))

\* Where Python puts the bound k of a slice of a sequence of n items: a
\* negative bound counts from the end, and every bound is clamped to 0..n.
SliceIndex(k, n) ==
    IF k < 0 THEN (IF k + n < 0 THEN 0 ELSE k + n)
    ELSE Min(k, n)

\* seq[start:end]
PySlice(seq, start, end) ==
    SubSeq(seq, SliceIndex(start, Len(seq)) + 1, SliceIndex(end, Len(seq)))

\* int.from_bytes(bs, byteorder='big')
RECURSIVE IntFromBytes(_)
IntFromBytes(bs) ==
    IF bs = <<>> THEN 0
    ELSE 256 * IntFromBytes(SubSeq(bs, 1, Len(bs) - 1)) + bs[Len(bs)]

\* Lines 168-180
DecodeUint256FromData(data, offset) ==
    IF data = <<>> \/ data = Ox THEN Gives(None)
    ELSE LET data_bytes == FromHex(DropFirst(data, 2))
             start == offset
             end == offset + WordBytes
         IN IF data_bytes.raised THEN data_bytes
            ELSE IF end > Len(data_bytes.val) THEN Gives(None)
            ELSE Gives(Some(IntFromBytes(PySlice(data_bytes.val, start, end))))

\* Lines 198-201: two's complement of a word.
TwosComplementAbove(unsigned) == IF unsigned > Half THEN unsigned - Full ELSE unsigned

TwosComplement(unsigned) == IF unsigned >= Half THEN unsigned - Full ELSE unsigned

\* Lines 193-201
DecodeInt256FromData(data, offset) ==
    LET unsigned == DecodeUint256FromData(data, offset)
    IN IF unsigned.raised \/ unsigned.val = None THEN unsigned
       ELSE Gives(Some(TwosComplement(unsigned.val[1])))

\* Lines 205-206
DecodeBoolFromData(data, offset) ==
    LET value == DecodeUint256FromData(data, offset)
    IN IF value.raised \/ value.val = None THEN value
       ELSE Gives(Some(value.val[1] = 1))

\* Web3.to_checksum_address: a ValueError unless the text is "0x" and the hex
\* digits of an address; the checksum case of the digits is a function of the
\* lower-case address, which stands for it here.
ToChecksumAddress(address) ==
    IF /\ Len(address) = 2 + 2 * AddressBytes
       /\ Lower(Prefix(address, 2)) = Ox
       /\ IsHex(DropFirst(address, 2))
    THEN Gives(Some([checksum_of |-> Lower(address)]))
    ELSE Raises(<<"ValueError">>)

\* Lines 150-155
DecodeAddressFromTopic(topic) ==
    IF topic = <<>> \/ Len(topic) # 2 + 2 * WordBytes THEN Gives(None)
    ELSE ToChecksumAddress(Ox \o TakeLast(topic, 2 * AddressBytes))

---------------------------------------------------------------------------
(* The inputs of the decode helpers and the helpers as operations. *)

HexDigit(d) == IF d < 10 THEN 48 + d ELSE 87 + d

\* The n bytes of v, most significant first, and the same as 2n hex digits.
BytesOf(v, n) == [k \in 1..n |-> (v \div Pow(256, n - k)) % 256]
HexOf(v, n) == [k \in 1..(2 * n) |-> HexDigit((v \div Pow(16, 2 * n - k)) % 16)]

\* The words at the ends and in the middle of the range of a word.
EdgeValues == {0, 1, 2, 256, Half - 1, Half, Full - 1}

EdgeWords == {HexOf(v, WordBytes) : v \in EdgeValues}

\* The hex digits of n words.
RECURSIVE PayloadsOf(_)
PayloadsOf(n) ==
    IF n = 0 THEN {<<>>} ELSE {w \o p : w \in EdgeWords, p \in PayloadsOf(n - 1)}

\* What may follow the words: nothing, one digit more, one byte more, and
\* two characters that are no hex digits ("f", "FF", "zz").
Tails == {<<>>, <<102>>, <<70, 70>>, <<122, 122>>}

\* The data field of an event as the helpers may be handed it: with and
\* without "0x", whole words and not, hex digits and not.
DataInputs ==
    { pre \o body \o tail :
        pre \in {Ox, <<>>}, body \in UNION {PayloadsOf(n) : n \in 0..MaxWords}, tail \in Tails }

\* Byte offsets: negative, zero, positive, on and off the word boundaries.
Offsets == {-WordBytes, -1, 0, 1, WordBytes, 2 * WordBytes}

\* A topic of an event as the helper may be handed it.
TopicInputs ==
    { pre \o body \o tail :
        pre \in {Ox, <<>>}, body \in UNION {PayloadsOf(n) : n \in 0..1}, tail \in Tails }

\* The helper `op`, called with the arguments `args`, hands back r.
Decode(op, r) ==
    /\ pc = op
    /\ Complete(IF r.raised THEN Raise(op, args, r.error, <<>>)
                ELSE Return(op, args, r.val, FALSE, <<>>))
    /\ UNCHANGED <<cache, chainVars, logsVars, creationVars, clockVars, procs, scriptVars>>

CallDecodeUint256FromData ==
    Decode("decode_uint256_from_data", DecodeUint256FromData(args.data, args.offset))

CallDecodeInt256FromData ==
    Decode("decode_int256_from_data", DecodeInt256FromData(args.data, args.offset))

CallDecodeBoolFromData ==
    Decode("decode_bool_from_data", DecodeBoolFromData(args.data, args.offset))

CallDecodeAddressFromTopic ==
    Decode("decode_address_from_topic", DecodeAddressFromTopic(args.data))

---------------------------------------------------------------------------
(* has_role and is_whitelisted, and the governance checks that call them. *)

\* What w3.eth.call does: the bytes the contract returned, or an exception
\* (the node fails, the call reverts).
RpcResults ==
    { [failed |-> FALSE, error |-> "", result |-> BytesOf(v, WordBytes)] : v \in EdgeValues }
    \cup { [failed |-> TRUE, error |-> e, result |-> <<>>] :
             e \in {"ConnectionError", "ContractLogicError"} }

\* Lines 97-108 and 128-138: the try block around the call.
CallResultOrRaise(rpc) ==
    IF rpc.failed THEN Raises(<<rpc.error>>)
    ELSE Gives(Some(IntFromBytes(rpc.result) = 1))

CallResult(rpc) ==
    IF rpc.failed THEN Gives(Some(FALSE))
    ELSE Gives(Some(IntFromBytes(rpc.result) = 1))

\* The operation `op` ends with r, having made the calls `calls`.
Finish(op, r, calls) ==
    /\ pc = op
    /\ Complete(IF r.raised THEN Raise(op, args, r.error, calls)
                ELSE Return(op, args, r.val, FALSE, calls))
    /\ UNCHANGED <<cache, chainVars, logsVars, creationVars, clockVars, procs, scriptVars>>

\* The accounts the governance script asks about, as the script spells them
\* before Web3.to_checksum_address.
EXPECTED_ADMIN == "0xe28bd6b3991f3e4b54af24ea2f1ee869c8044a93"
KNOWN_KEEPERS ==
    <<"0xaee2ee1c899ecb6313a3c80ddaac40f2e1f6d9c4", "0x65fd3d40f9c2fd34c4ec54a3d0a0bc9900c8a3a1">>
DEFAULT_ADMIN_ROLE == "0x0000000000000000000000000000000000000000000000000000000000000000"

\* web3_helpers.py lines 66-108
HasRole ==
    \E rpc \in RpcResults :
        Finish("has_role", CallResult(rpc), <<Exchange("hasRole(bytes32,address)", rpc)>>)

\* web3_helpers.py lines 110-138
IsWhitelisted ==
    \E rpc \in RpcResults :
        Finish("is_whitelisted", CallResult(rpc), <<Exchange("isWhitelisted(address)", rpc)>>)

\* verify_governance.py lines 119-142: what verify_admin_roles puts into the report.
VerifyAdminRoles ==
    \E rpc \in RpcResults :
        LET has_default_admin == CallResult(rpc)
            results ==
                [admin_verified |->
                    [account |-> EXPECTED_ADMIN, has_role |-> has_default_admin.val[1],
                     role_hash |-> DEFAULT_ADMIN_ROLE],
                 summary |-> [admin_verified |-> has_default_admin.val[1]]]
        IN Finish("verify_admin_roles",
                  IF has_default_admin.raised THEN has_default_admin ELSE Gives(results),
                  <<Exchange("hasRole(bytes32,address)", rpc)>>)

\* verify_governance.py lines 153-173: what verify_keeper_whitelist puts into the report.
VerifyKeeperWhitelist ==
    \E rpcs \in [1..Len(KNOWN_KEEPERS) -> RpcResults] :
        LET is_whitelisted == [k \in 1..Len(KNOWN_KEEPERS) |-> CallResult(rpcs[k])]
            failed == {k \in 1..Len(KNOWN_KEEPERS) : is_whitelisted[k].raised}
            keepers_verified ==
                [k \in 1..Len(KNOWN_KEEPERS) |->
                    [address |-> KNOWN_KEEPERS[k], is_whitelisted |-> is_whitelisted[k].val[1]]]
            results ==
                [keepers_verified |-> keepers_verified,
                 summary |-> [keepers_whitelisted |->
                     Cardinality({k \in 1..Len(KNOWN_KEEPERS) : keepers_verified[k].is_whitelisted})]]
            calls == [k \in 1..Len(KNOWN_KEEPERS) |-> Exchange("isWhitelisted(address)", rpcs[k])]
        IN Finish("verify_keeper_whitelist",
                  IF failed # {} THEN is_whitelisted[CHOOSE k \in failed : \A j \in failed : k <= j]
                  ELSE Gives(results),
                  calls)

---------------------------------------------------------------------------
(* Specifications. *)

Init ==
    /\ cache = <<>>
    /\ tip = 0
    /\ eventBlocks = {}
    /\ pc = "idle"
    /\ args = <<>>
    /\ page = 1
    /\ all_events = <<>>
    /\ i = 0
    /\ all_results = <<>>
    /\ reqLog = <<>>
    /\ ret = NoRet
    /\ prev = <<>>
    /\ now = min_request_interval
    /\ last_request_time = 0
    /\ sendTimes = <<>>
    /\ inflight = FALSE
    /\ procs = [p \in Procs |-> NotCalled]
    /\ script = NoScript
    /\ files = <<>>
    /\ runs = <<>>

NextCreation == GetContractCreation(AddressLists)

SpecCreation == Init /\ [][NextCreation]_vars

NextLogs ==
    \/ GetAllLogs(LogQueries({1}, {2, DefaultToBlock}, 1..MaxOffset))
    \/ \E withEvent \in BOOLEAN : AdvanceChain(withEvent)

SpecLogs == Init /\ [][NextLogs]_vars

ContractAddresses == {MARKET_REGISTRY, PM_BTC}

NextClient ==
    \/ CallMakeRequest
    \/ \E q \in LogQueries({1}, {DefaultToBlock}, {MaxOffset}) : CallGetLogs(q, 1)
    \/ \E op \in {"get_transaction", "get_transaction_receipt"}, tx_hash \in TxHashes :
         CallGetTransaction(op, tx_hash)
    \/ \E address \in ContractAddresses : GetContractAbi(address)
    \/ \E address \in ContractAddresses : GetContractSource(address)

SpecClient == Init /\ [][NextClient]_vars

\* Every operation that keeps files, on one cache directory.
NextCache ==
    \/ GetContractAbi(MARKET_REGISTRY)
    \/ GetContractSource(MARKET_REGISTRY)
    \/ GetContractCreation(DistinctLists({MARKET_REGISTRY, PM_BTC}, MaxAddrs))
    \/ GetAllLogs(LogQueries({1}, {DefaultToBlock}, {MaxOffset}))
    \/ AdvanceChain(TRUE)

SpecCache == Init /\ [][NextCache]_vars

\* get_all_logs against an explorer whose list for the query does not change
\* while the pages are fetched; the loop, once entered, goes on.
NextPages ==
    \/ GetAllLogs(LogQueries({1}, {2, DefaultToBlock}, 1..MaxOffset))
    \/ (pc = "idle" /\ \E withEvent \in BOOLEAN : AdvanceChain(withEvent))

SpecPages == Init /\ [][NextPages]_vars /\ WF_vars(FetchPage)

\* The calls of the helpers of Web3Helper and of the governance checks built
\* on them: the helper called, and its arguments.
HelperCalls ==
    ({"decode_uint256_from_data", "decode_int256_from_data", "decode_bool_from_data"}
        \X [data : DataInputs, offset : Offsets])
    \cup ({"decode_address_from_topic"} \X [data : TopicInputs])
    \cup ({"has_role"} \X [contract : {MARKET_REGISTRY}, role : {DEFAULT_ADMIN_ROLE},
                            account : {EXPECTED_ADMIN}])
    \cup ({"is_whitelisted"} \X [contract : {MARKET_REGISTRY}, account : Range(KNOWN_KEEPERS)])
    \cup ({"verify_admin_roles", "verify_keeper_whitelist"} \X {<<>>})

\* A helper keeps no state: it has just been called, with any of the arguments.
InitWeb3 ==
    /\ \E call \in HelperCalls : pc = call[1] /\ args = call[2]
    /\ cache = <<>>
    /\ tip = 0
    /\ eventBlocks = {}
    /\ page = 1
    /\ all_events = <<>>
    /\ i = 0
    /\ all_results = <<>>
    /\ reqLog = <<>>
    /\ ret = NoRet
    /\ prev = <<>>
    /\ now = min_request_interval
    /\ last_request_time = 0
    /\ sendTimes = <<>>
    /\ inflight = FALSE
    /\ procs = [p \in Procs |-> NotCalled]
    /\ script = NoScript
    /\ files = <<>>
    /\ runs = <<>>

NextWeb3 ==
    \/ CallDecodeUint256FromData
    \/ CallDecodeInt256FromData
    \/ CallDecodeBoolFromData
    \/ CallDecodeAddressFromTopic
    \/ HasRole
    \/ IsWhitelisted
    \/ VerifyAdminRoles
    \/ VerifyKeeperWhitelist

SpecWeb3 == InitWeb3 /\ [][NextWeb3]_vars

\* Two processes, and the chain that grows under them.
NextRace ==
    \/ \E p \in Procs : ProcCall(p)
    \/ \E p \in Procs : ProcExists(p)
    \/ \E p \in Procs : ProcLoad(p)
    \/ \E p \in Procs : ProcFetchPage(p)
    \/ \E p \in Procs : ProcOpen(p)
    \/ \E p \in Procs : ProcDump(p)
    \/ AdvanceChain(TRUE)

SpecRace == Init /\ [][NextRace]_vars

NextRate == Tick \/ RateLimitAndSend \/ Respond

SpecRate == Init /\ [][NextRate]_vars

---------------------------------------------------------------------------
(* Claims about get_all_logs. *)

LogsReturned == ret.op = "get_all_logs" /\ ret.outcome = "return"

\* The events get_logs handed back in one exchange.
EventsOf(exchange) == GetLogs(exchange.resp).data.result.val

RECURSIVE ConcatPages(_)
ConcatPages(exchanges) ==
    IF exchanges = <<>> THEN <<>>
    ELSE EventsOf(Head(exchanges)) \o ConcatPages(Tail(exchanges))

\* A page that ends the pagination: no event, or fewer than the page size.
EndsPagination(exchange, offset) ==
    Len(EventsOf(exchange)) = 0 \/ Len(EventsOf(exchange)) < offset

\* C1: on a cache miss get_all_logs requests the pages 1, 2, 3, ... in order and
\* returns the concatenation of the pages 1..k, k being the first page with no
\* event or with fewer events than the page size; it requests no page after k.
C1_PaginationConcatenatesUntilShortPage ==
    (LogsReturned /\ ~ret.hit) =>
        LET n == Len(ret.reqs)
        IN /\ n >= 1
           /\ \A k \in 1..n : ret.reqs[k].req = k
           /\ ret.value = ConcatPages(ret.reqs)
           /\ EndsPagination(ret.reqs[n], ret.args.offset)
           /\ \A k \in 1..(n - 1) : ~EndsPagination(ret.reqs[k], ret.args.offset)

\* C1's case: pages of N, N, N and j < N events, fetched with four requests.
C1_Witness ==
    /\ LogsReturned /\ ~ret.hit
    /\ Len(ret.reqs) = 4
    /\ Len(ret.value) = 3 * ret.args.offset + Len(EventsOf(ret.reqs[4]))

\* C2: a call of get_all_logs that repeats the parameters of the call before
\* it issues no request and returns what that call returned.
C2_SecondCallServedFromCache ==
    (LogsReturned /\ ret.repeated) => (ret.reqs = <<>> /\ ret.same)

\* C2's case: the repeated call of a query that has events.
C2_Witness == LogsReturned /\ ret.repeated /\ ret.hit /\ Len(ret.value) >= 2

\* C4: a query to the open-ended to_block is never answered from a cache entry
\* written at an earlier tip: when it is answered from the cache, it returns the
\* matching events the chain holds at that moment.
C4_OpenEndedQueryNeverStale ==
    (LogsReturned /\ ret.args.to_block = DefaultToBlock /\ ret.hit) => ret.fresh

\* An answer by which the explorer serves a page of its list: the events, or
\* "No records found" past the end.
Serves(exchange) ==
    /\ exchange.resp.http = "ok"
    /\ (exchange.resp.status = "1" \/ exchange.resp.message = NoRecordsFound)

\* C11: against an explorer that holds T matching events and serves them in
\* consecutive pages, get_all_logs ends, after at most T \div offset + 1 page
\* requests, and returns all T events, also when T is a multiple of offset.
C11_PaginationTerminates ==
    /\ [](pc = "logs_fetch" => page <= Len(Matching(args)) \div args.offset + 1)
    /\ []((LogsReturned /\ ~ret.hit /\ \A k \in 1..Len(ret.reqs) : Serves(ret.reqs[k])) =>
            (/\ ret.fresh
             /\ Len(ret.reqs) <= Len(ret.value) \div ret.args.offset + 1))
    /\ (pc = "logs_fetch" ~> pc = "idle")

\* C11's case: a list whose length is a multiple of a page size above one.
C11_Witness ==
    /\ LogsReturned /\ ~ret.hit /\ ret.fresh
    /\ \A k \in 1..Len(ret.reqs) : Serves(ret.reqs[k])
    /\ ret.args.offset = MaxOffset
    /\ Len(ret.value) = MaxOffset
    /\ Len(ret.reqs) = 2

\* The pages of a call that held events.
PagesWithEvents(exchanges) == {k \in 1..Len(exchanges) : EventsOf(exchanges[k]) # <<>>}

\* C13: on a cache miss get_all_logs writes the cache file of the query, whose
\* total_events is the number of events returned and whose total_pages is the
\* number of pages that held events, also for no event at all and for a total
\* that is a multiple of the page size.
C13_CacheFileCountsPages ==
    (LogsReturned /\ ~ret.hit) =>
        /\ LogsCacheFile(ret.args) \in DOMAIN cache
        /\ cache[LogsCacheFile(ret.args)].total_events = Len(ret.value)
        /\ cache[LogsCacheFile(ret.args)].total_pages = Cardinality(PagesWithEvents(ret.reqs))

---------------------------------------------------------------------------
(* Claims about get_contract_creation. *)

CreationReturned == ret.op = "get_contract_creation" /\ ret.outcome = "return"

\* C3: the cache of get_contract_creation is keyed by the sorted member
\* addresses of the request, so a call is served only from files written for
\* the same set of addresses: every record a call returns refers to an
\* address of that call's input.
C3_RecordsAreOfTheInput ==
    CreationReturned =>
        \A k \in 1..Len(ret.value) :
            \E a \in Range(ret.args.addresses) : ret.value[k].contractAddress = Lower(a)

\* C8: for a list of pairwise distinct addresses and any cache left by
\* earlier calls, every address the explorer knows appears in at most one
\* record of the returned list.
C8_AtMostOneRecordPerAddress ==
    CreationReturned =>
        \A a \in Range(ret.args.addresses) :
            Cardinality({k \in 1..Len(ret.value) : ret.value[k].contractAddress = Lower(a)}) <= 1

\* The cache was empty when the call began: the files there are now are the
\* files the requests of this call wrote.
CalledOnEmptyCache ==
    DOMAIN cache =
        { CreationCacheFile(ret.reqs[k].req) :
            k \in {j \in 1..Len(ret.reqs) : ~MakeRequest(ret.reqs[j].resp).raised} }

\* The results of the requests of a call, one after the other.
RECURSIVE SliceResults(_)
SliceResults(exchanges) ==
    IF exchanges = <<>> THEN <<>>
    ELSE MakeRequest(Head(exchanges).resp).data.result.val \o SliceResults(Tail(exchanges))

C19_FailedRequestNotRetried ==
    \A j \in 1..Len(ret.reqs) :
        MakeRequest(ret.reqs[j].resp).raised =>
            /\ ret.outcome = "raise"
            /\ j = Len(ret.reqs)
            /\ \A k \in (j + 1)..Len(ret.reqs) : ret.reqs[k].req # ret.reqs[j].req

---------------------------------------------------------------------------
(* Claims about the envelopes. *)

\* The answer the last request of the completed operation got.
LastResponse == ret.reqs[Len(ret.reqs)].resp

\* An envelope that is not a success and reads "No records found" or NOTOK.
NoRecordsLike(resp) ==
    /\ resp.http = "ok"
    /\ resp.status # "1"
    /\ (Contains(resp.message, NoRecordsFound) \/ resp.message = NOTOK)

\* C5: for an envelope whose status is not "1" and whose message contains
\* "No records found" or equals "NOTOK", _make_request raises nothing and
\* returns status "1" with an empty list; get_logs then returns an empty list.
C5_NoRecordsIsEmptySuccess ==
    /\ (ret.op = "_make_request" /\ NoRecordsLike(LastResponse)) =>
           (ret.outcome = "return" /\ ret.value = [status |-> "1", result |-> JList(<<>>)])
    /\ (ret.op = "get_logs" /\ NoRecordsLike(LastResponse)) =>
           (ret.outcome = "return" /\ ret.value = <<>>)

\* C5's case: get_logs answered with status "0" and the message NOTOK.
C5_Witness ==
    /\ ret.op = "get_logs"
    /\ LastResponse.status = "0" /\ LastResponse.message = NOTOK
    /\ ret.outcome = "return" /\ ret.value = <<>>

\* C6: an envelope whose status is not "1" and whose message is not a
\* "No records found" message makes _make_request raise an error that carries
\* the message; it is never turned into an empty success.
C6_OtherFailuresRaise ==
    (/\ ret.op = "_make_request"
     /\ LastResponse.http = "ok"
     /\ LastResponse.status # "1"
     /\ ~Contains(LastResponse.message, NoRecordsFound)) =>
        (ret.outcome = "raise" /\ Contains(ret.error, LastResponse.message))

ExplorerOperations ==
    { "get_contract_abi", "get_contract_source", "get_contract_creation", "get_logs",
      "get_all_logs", "get_transaction", "get_transaction_receipt" }

\* C7: for every operation of the client, an answer that says "no results"
\* yields a result and not an error.
C7_NoResultsNeverRaises ==
    (/\ ret.op \in ExplorerOperations
     /\ ret.reqs # <<>>
     /\ LastResponse.http = "ok"
     /\ LastResponse.status # "1"
     /\ Contains(LastResponse.message, NoRecordsFound)) =>
        ret.outcome = "return"

---------------------------------------------------------------------------
(* Claims about the cache files. *)

\* C9: a cache file, once it exists, is kept with its content by every later
\* step of every operation, and an operation answered from a file issues no
\* request, however far the chain has advanced.
C9_CacheFilesAreImmutable ==
    [][ /\ \A f \in DOMAIN cache : f \in DOMAIN cache' /\ cache'[f] = cache[f]
        /\ ret'.hit => ret'.reqs = <<>>
        /\ (/\ pc = "creation_batch"
            /\ i < Len(args.addresses)
            /\ CreationCacheFile(Batch(args.addresses, i, args.batch_size)) \in DOMAIN cache)
           => (reqLog' = reqLog \/ pc' = "idle")
      ]_vars

\* C9's case: the chain has grown past what a file holds, and a call was
\* answered from that file.
C9_Witness ==
    /\ ret.op = "get_all_logs" /\ ret.hit
    /\ Len(ret.value) >= 1
    /\ Len(ret.value) < Cardinality(eventBlocks)
    /\ \E f \in DOMAIN cache : f[1] = "abi"
    /\ \E f \in DOMAIN cache : f[1] = "creation"

---------------------------------------------------------------------------
(* Claims about the rate limiter. *)

\* C10: two consecutive requests of a client leave at least
\* min_request_interval apart, so k consecutive requests take at least
\* (k - 1) * min_request_interval.
C10_RequestsAreSpaced ==
    /\ \A k \in 2..Len(sendTimes) : sendTimes[k] - sendTimes[k - 1] >= min_request_interval
    /\ \A j, k \in 1..Len(sendTimes) :
         j < k => sendTimes[k] - sendTimes[j] >= (k - j) * min_request_interval

\* C10's case: three requests, the third exactly 2 * min_request_interval
\* after the first, the client having slept before it.
C10_Witness ==
    /\ Len(sendTimes) = 3
    /\ sendTimes[3] - sendTimes[1] = 2 * min_request_interval

---------------------------------------------------------------------------
(* Claims about the decode helpers. *)

\* The value of a string of hex digits, digit by digit.
RECURSIVE HexToInt(_)
HexToInt(digits) ==
    IF digits = <<>> THEN 0
    ELSE 16 * HexToInt(SubSeq(digits, 1, Len(digits) - 1)) + HexVal(digits[Len(digits)])

\* C14: decode_int256_from_data on the big-endian encoding of a word v gives v
\* below 2^255 and v - 2^256 from there on; the result lies in
\* [-2^255, 2^255 - 1] and its two's complement encoding is the input.
C14_Int256IsTwosComplement ==
    \A v \in EdgeValues :
        (/\ ret.op = "decode_int256_from_data"
         /\ ret.args = [data |-> Ox \o HexOf(v, WordBytes), offset |-> 0]) =>
            /\ ret.outcome = "return"
            /\ ret.value = Some(IF v < Half THEN v ELSE v - Full)
            /\ ret.value[1] >= -Half /\ ret.value[1] <= Half - 1
            /\ Ox \o HexOf((ret.value[1] + Full) % Full, WordBytes) = ret.args.data

\* C14's case: the word 2^255, the smallest that decodes to a negative number.
C14_Witness ==
    /\ ret.op = "decode_int256_from_data"
    /\ ret.args = [data |-> Ox \o HexOf(Half, WordBytes), offset |-> 0]
    /\ ret.value = Some(-Half)

\* "0x" and an even number of hex digits.
IsHexPayload(data) ==
    /\ Prefix(data, 2) = Ox
    /\ IsHex(DropFirst(data, 2))
    /\ Len(data) % 2 = 0

\* C15: for a hex payload and any byte offset, decode_uint256_from_data gives
\* None when the payload is empty or the word at [offset, offset + 32) does
\* not lie inside the payload, and the big-endian value of the word otherwise.
C15_Uint256NoneWhenAbsent ==
    (ret.op = "decode_uint256_from_data" /\ IsHexPayload(ret.args.data)) =>
        LET digits == DropFirst(ret.args.data, 2)
            offset == ret.args.offset
            inside == offset >= 0 /\ 2 * (offset + WordBytes) <= Len(digits)
        IN /\ ret.outcome = "return"
           /\ ret.value = (IF inside
                           THEN Some(HexToInt(SubSeq(digits, 2 * offset + 1,
                                                     2 * (offset + WordBytes))))
                           ELSE None)

DecodeHelpers ==
    { "decode_address_from_topic", "decode_uint256_from_data",
      "decode_int256_from_data", "decode_bool_from_data" }

\* Input that is no "0x" with whole bytes of hex digits, or a topic that is
\* not one word long.
Malformed(op, data) ==
    \/ ~IsHexPayload(data)
    \/ op = "decode_address_from_topic" /\ Len(data) # 2 + 2 * WordBytes

\* C16: no decode helper raises on malformed input (an odd number of hex
\* digits, characters that are no hex digits, no "0x", a wrong length): each
\* gives None.
C16_DecodeNeverRaises ==
    (ret.op \in DecodeHelpers /\ Malformed(ret.op, ret.args.data)) =>
        (ret.outcome = "return" /\ ret.value = None)

---------------------------------------------------------------------------
(* Claims about the role and whitelist checks. *)

\* The outcome of the k-th eth_call of the completed operation.
RpcOf(k) == ret.reqs[k].resp

\* C17: has_role and is_whitelisted give true exactly when the last byte of
\* the word the call returned is not zero.
C17_LastByteDecides ==
    (ret.op \in {"has_role", "is_whitelisted"} /\ ~RpcOf(1).failed) =>
        (/\ ret.outcome = "return"
         /\ ret.value = Some(RpcOf(1).result[WordBytes] # 0))

\* C18: when the eth_call of has_role or is_whitelisted fails, the helper
\* raises nothing and gives false, and the governance report records the
\* check as negative.
C18_FailedCallIsFalse ==
    /\ (ret.op \in {"has_role", "is_whitelisted"} /\ RpcOf(1).failed) =>
           (ret.outcome = "return" /\ ret.value = Some(FALSE))
    /\ (ret.op = "verify_admin_roles" /\ RpcOf(1).failed) =>
           (/\ ret.outcome = "return"
            /\ ~ret.value.admin_verified.has_role
            /\ ~ret.value.summary.admin_verified)
    /\ ret.op = "verify_keeper_whitelist" =>
           \A k \in 1..Len(KNOWN_KEEPERS) :
               RpcOf(k).failed =>
                   (/\ ret.outcome = "return"
                    /\ ~ret.value.keepers_verified[k].is_whitelisted)

\* C18's case: the report of verify_admin_roles after a call that reverted.
C18_Witness ==
    /\ ret.op = "verify_admin_roles"
    /\ RpcOf(1).failed /\ RpcOf(1).error = "ContractLogicError"
    /\ ret.outcome = "return"
    /\ ~ret.value.summary.admin_verified

---------------------------------------------------------------------------
(* Claims about concurrent processes. *)

\* C20: the cache is read and written without a lock. The exists() test of a
\* process looks at nothing but the file, whatever the other process is doing
\* to it; a read of a file the other process has opened and not finished
\* gets no events out of it; and open(.., 'w') empties the file even when the
\* other process has written it.
C20_CacheIsNotLocked ==
    [][\A p \in Procs :
         LET file == LogsCacheFile(SharedQuery)
         IN /\ (procs[p].pc = "exists" /\ procs'[p].pc # "exists") =>
                   ((procs'[p].pc = "load") <=> (file \in DOMAIN cache))
            /\ (procs[p].pc = "load" /\ procs'[p].pc # "load" /\ IsIncomplete(cache[file])) =>
                   procs'[p].outcome = "JSONDecodeError"
            /\ (procs[p].pc = "open" /\ procs'[p].pc # "open") =>
                   IsIncomplete(cache'[file])
      ]_vars

\* C20's case: both processes missed, fetched and opened the same file for
\* writing, and one of them then found the file and read it while the other
\* had not finished writing it.
C20_Witness ==
    \E p, q \in Procs :
        /\ p # q
        /\ procs[p].wrote /\ procs[q].wrote
        /\ procs[q].pc = "dump"
        /\ procs[p].outcome = "JSONDecodeError"

---------------------------------------------------------------------------
(* Claims about a failing page of get_all_logs. *)

\* A page request of the call that the explorer did not serve.
FailedPages(exchanges) == {k \in 1..Len(exchanges) : ~Serves(exchanges[k])}

\* C28: if a page request fails during get_all_logs, on page 1 or on a later
\* page, the error reaches the caller, no cache file is created for the query,
\* the events of the pages already fetched are neither returned nor stored, and
\* a later identical call starts again from page 1.
C28_FailedPageLeavesNothing ==
    (ret.op = "get_all_logs" /\ FailedPages(ret.reqs) # {}) =>
        /\ ret.outcome = "raise"
        /\ ret.value = <<>>
        /\ ~Exists(LogsCacheFile(ret.args))
        /\ page = 1
        /\ all_events = <<>>

---------------------------------------------------------------------------
(* detect_new_markets.py and verify_vault_security.py: one run of a script, *)
(* from its command line to its exit status.                                *)

MaxRuns == 2            \* script runs in one behaviour

\* detect_new_markets.py lines 45 and 223: the block of the TradeSta deployment.
GenesisBlock == 63000000

\* detect_new_markets.py line 85: offset=10000
DetectOffset == 10000

LAST_CHECKED_FILE == "last_checked_block.txt"
OUTPUT_FILE == "new_markets.json"
VaultOutputFile == "cache/vault_security_check.json"

\* A block is mined after the deployment; it may hold a MarketCreated event.
MineBlock(withEvent) ==
    /\ tip < GenesisBlock + MaxTip
    /\ tip' = tip + 1
    /\ eventBlocks' = IF withEvent THEN eventBlocks \cup {tip + 1} ELSE eventBlocks
    /\ UNCHANGED <<cache, clientVars, clockVars, procs, scriptVars>>

\* open(file, 'w') and the write, for one or more files of the script.
WriteFiles(contents) ==
    files' = [f \in DOMAIN files \cup DOMAIN contents |->
                IF f \in DOMAIN contents THEN contents[f] ELSE files[f]]

\* Lines 38-45: load_last_checked_block.
LoadLastCheckedBlockLate ==
    IF LAST_CHECKED_FILE \in DOMAIN files THEN files[LAST_CHECKED_FILE] ELSE GenesisBlock + 1

LoadLastCheckedBlock ==
    IF LAST_CHECKED_FILE \in DOMAIN files THEN files[LAST_CHECKED_FILE] ELSE GenesisBlock

\* The command lines of the script: no option, or --all.
DetectOptions == {"default", "all"}

\* Lines 222-228 and 65-66: the block the search starts from.
FromBlock(opt) == IF opt = "all" THEN GenesisBlock ELSE LoadLastCheckedBlock

\* A run has ended: what it was, how it ended and what it left behind.
EndRun(run) ==
    /\ runs' = Append(runs, run)
    /\ script' = NoScript

\* Lines 202-228 and 62-76: the command line, the start block, the chain tip.
DetectStart(opt) ==
    /\ script = NoScript
    /\ pc = "idle"
    /\ Len(runs) < MaxRuns
    /\ script' = [name |-> "detect_new_markets", opt |-> opt,
                  from_block |-> FromBlock(opt), current_block |-> tip]
    /\ UNCHANGED <<cache, chainVars, clientVars, clockVars, procs, files, runs>>

\* Lines 80-86: the arguments of api.get_all_logs.
DetectQuery ==
    [address |-> Lower(MARKET_REGISTRY), from_block |-> script.from_block,
     to_block |-> script.current_block, offset |-> DetectOffset]

\* Lines 80-86: the script calls get_all_logs, once.
DetectGetAllLogs ==
    /\ script.name = "detect_new_markets"
    /\ ret = NoRet
    /\ CallGetAllLogs(DetectQuery)

\* Lines 288-329 of the client, inside the call of the script.
DetectFetchPage ==
    /\ script.name = "detect_new_markets"
    /\ FetchPage

\* Lines 98-118: the markets of the events, numbered; a market is named by
\* the block of its event.
NewMarkets(events) == [k \in 1..Len(events) |-> [market_number |-> k, block |-> events[k]]]

\* Line 185: max(m['block'] for m in new_markets)
LatestBlock(new_markets) ==
    CHOOSE b \in {new_markets[k].block : k \in 1..Len(new_markets)} :
        \A k \in 1..Len(new_markets) : new_markets[k].block <= b

\* Lines 172-180: what json.dump writes into new_markets.json.
OutputContent(from_block, to_block, new_markets) ==
    [from_block |-> from_block, to_block |-> to_block,
     total_new_markets |-> Len(new_markets), markets |-> new_markets]

\* The record of a run of detect_new_markets.
DetectRun(status, new_markets, wrote) ==
    [name |-> script.name, opt |-> script.opt, from_block |-> script.from_block,
     current_block |-> script.current_block, exit |-> status,
     markets |-> [k \in 1..Len(new_markets) |-> new_markets[k].block],
     wrote |-> wrote,
     served |-> \A k \in 1..Len(ret.reqs) : ret.reqs[k].resp.http = "ok" /\
                    (ret.reqs[k].resp.status = "1" \/ ret.reqs[k].resp.message = NoRecordsFound)]

\* Lines 88-199 and 230-242: after get_all_logs, to the exit status.
DetectFinish ==
    /\ script.name = "detect_new_markets"
    /\ pc = "idle"
    /\ ret.op = "get_all_logs"
    /\ LET new_markets == NewMarkets(ret.value)
       IN IF ret.outcome = "raise"
          THEN EndRun(DetectRun(1, <<>>, {})) /\ UNCHANGED files
          ELSE IF ret.value = <<>>
          THEN EndRun(DetectRun(0, <<>>, {})) /\ UNCHANGED files
          ELSE /\ WriteFiles(
                    [f \in {OUTPUT_FILE, LAST_CHECKED_FILE} |->
                        IF f = OUTPUT_FILE
                        THEN OutputContent(script.from_block, script.current_block, new_markets)
                        ELSE LatestBlock(new_markets)])
               /\ EndRun(DetectRun(0, new_markets, {OUTPUT_FILE, LAST_CHECKED_FILE}))
    /\ ret' = NoRet
    /\ UNCHANGED <<cache, chainVars, pc, args, logsVars, creationVars, reqLog, prev,
                   clockVars, procs>>

\* verify_vault_security.py lines 211-351: main, to its end.
VerifyVaultSecurity(connected) ==
    /\ script = NoScript
    /\ pc = "idle"
    /\ Len(runs) < MaxRuns
    /\ LET run == [name |-> "verify_vault_security", opt |-> "default",
                   from_block |-> 0, current_block |-> tip, exit |-> 0,
                   markets |-> <<>>, wrote |-> {}, served |-> TRUE]
       IN IF ~connected
          THEN EndRun(run) /\ UNCHANGED files
          ELSE /\ WriteFiles([f \in {VaultOutputFile} |-> [block_number |-> tip]])
               /\ EndRun([run EXCEPT !.wrote = {VaultOutputFile}])
    /\ UNCHANGED <<cache, chainVars, clientVars, clockVars, procs>>

\* The chain at the deployment, no file written yet.
InitDetect ==
    /\ cache = <<>>
    /\ tip = GenesisBlock - 1
    /\ eventBlocks = {}
    /\ pc = "idle"
    /\ args = <<>>
    /\ page = 1
    /\ all_events = <<>>
    /\ i = 0
    /\ all_results = <<>>
    /\ reqLog = <<>>
    /\ ret = NoRet
    /\ prev = <<>>
    /\ now = min_request_interval
    /\ last_request_time = 0
    /\ sendTimes = <<>>
    /\ inflight = FALSE
    /\ procs = [p \in Procs |-> NotCalled]
    /\ script = NoScript
    /\ files = <<>>
    /\ runs = <<>>

NextDetect ==
    \/ \E opt \in DetectOptions : DetectStart(opt)
    \/ DetectGetAllLogs
    \/ DetectFetchPage
    \/ DetectFinish
    \/ \E connected \in BOOLEAN : VerifyVaultSecurity(connected)
    \/ \E withEvent \in BOOLEAN : MineBlock(withEvent)

SpecDetect == InitDetect /\ [][NextDetect]_vars

---------------------------------------------------------------------------
(* Claims about the runs of detect_new_markets.py and verify_vault_security.py. *)

\* The results file of a script.
ResultsFile(name) == IF name = "detect_new_markets" THEN OUTPUT_FILE ELSE VaultOutputFile

\* C21: every script run that ends with exit status 0 has written its results
\* JSON file during that run, also when it had nothing to report.
C21_ExitZeroWroteResults ==
    \A k \in 1..Len(runs) :
        runs[k].exit = 0 => ResultsFile(runs[k].name) \in runs[k].wrote

\* The run that ended last, while no other is under way.
LastRun == runs[Len(runs)]
DetectCompleted ==
    /\ runs # <<>>
    /\ script = NoScript
    /\ LastRun.name = "detect_new_markets"
    /\ LastRun.exit = 0

\* C25: each completed run of detect_new_markets leaves in
\* last_checked_block.txt the chain tip it read at its start and used as
\* to_block, whether or not it found new markets.
C25_LastCheckedIsTip ==
    DetectCompleted =>
        /\ LAST_CHECKED_FILE \in DOMAIN files
        /\ files[LAST_CHECKED_FILE] = LastRun.current_block

\* The default runs of detect_new_markets that ended with exit status 0.
DefaultRuns ==
    {k \in 1..Len(runs) : /\ runs[k].name = "detect_new_markets"
                          /\ runs[k].opt = "default"
                          /\ runs[k].exit = 0}

\* C29: across successive default runs of detect_new_markets a market reported
\* by one run is not reported again by a later run: the range a run scans
\* starts after every market already reported.
C29_NoMarketReportedTwice ==
    \A a \in DefaultRuns, b \in DefaultRuns :
        a < b => \A m \in Range(runs[a].markets) :
                    /\ m \notin Range(runs[b].markets)
                    /\ m < runs[b].from_block

\* The runs up to run k are default runs of detect_new_markets (or runs of
\* another script) that the explorer served.
DefaultAndServedUpTo(k) ==
    \A j \in 1..k :
        /\ runs[j].served
        /\ runs[j].name = "detect_new_markets" => (runs[j].opt = "default" /\ runs[j].exit = 0)

\* The markets reported by the runs up to run k.
ReportedUpTo(k) == UNION {Range(runs[j].markets) : j \in 1..k}

\* C30: across default runs of detect_new_markets over an append-only chain
\* with a faithful explorer no market is skipped: every MarketCreated event
\* between block 63,000,000 and the tip read by a run has been reported by
\* that run or an earlier one; and the block in last_checked_block.txt never
\* decreases.
C30_NoMarketSkipped ==
    /\ [](\A k \in 1..Len(runs) :
            (runs[k].name = "detect_new_markets" /\ DefaultAndServedUpTo(k)) =>
                \A b \in eventBlocks :
                    (GenesisBlock <= b /\ b <= runs[k].current_block) => b \in ReportedUpTo(k))
    /\ [][LoadLastCheckedBlock' >= LoadLastCheckedBlock]_vars

\* C30's case: two default runs, each of which reports a market, the second a
\* market mined after the first run.
C30_Witness ==
    /\ Len(runs) = 2
    /\ DefaultRuns = {1, 2}
    /\ DefaultAndServedUpTo(2)
    /\ runs[1].markets # <<>>
    /\ \E m \in Range(runs[2].markets) : m > runs[1].current_block
    /\ files[LAST_CHECKED_FILE] > runs[1].current_block

---------------------------------------------------------------------------
(* The reporting scripts of phase 2 and the two suite runners: a run of a   *)
(* script from its command line to its exit status. A market is named by    *)
(* its number in the order of the MarketCreated events.                     *)

MaxMarkets == 4         \* markets the registry has created
MaxSample == 4          \* the N of --sample N
MaxIds == 2             \* position ids of one market
MaxRun == 3             \* liquidation levels with one and the same answer, in a row

\* verify_all.py lines 47-52.
Phase1Scripts ==
    <<"verify_contracts.py", "verify_associated_contracts.py", "verify_governance.py",
      "verify_events.py">>

\* verify_all_phase2.py lines 82-87.
Phase2Scripts ==
    <<"verify_events_enhanced.py", "verify_position_lifecycle.py",
      "analyze_liquidation_cascades.py", "verify_protocol_solvency.py">>

\* The parsers of the scripts: only verify_events_enhanced.py knows --all.
HasAllFlag(script_name) == script_name = "verify_events_enhanced.py"

\* sample_size = args.sample if args.sample else None
SampleSize(sample) == IF sample # None /\ sample[1] # 0 THEN sample ELSE None

\* The markets of the MarketCreated events, in event order.
Discovered(count) == [k \in 1..count |-> k]

\* verify_events_enhanced.py lines 74-87: AVAX/USD, BTC/USD and ETH/USD, the
\* markets 1 to 3 of the registry (market_names of the other scripts).
sample_markets == <<1, 2, 3>>

\* get_markets_to_verify: `if self.sample_size:` and the slice.
MarketsToVerify(script_name, sample_size, count) ==
    IF SampleSize(sample_size) = None THEN Discovered(count)
    ELSE IF script_name = "verify_events_enhanced.py"
         THEN PySlice(sample_markets, 0, sample_size[1])
         ELSE PySlice(Discovered(count), 0, sample_size[1])

\* The loop of verify_all_markets over `markets`; the first query about a
\* market of `failing` fails. verify_position_lifecycle and
\* verify_events_enhanced let the exception of get_all_logs out of the loop;
\* verify_market_solvency catches it and returns None, which the loop leaves
\* out of the results; analyze_market's helpers catch it and return no zone.
RECURSIVE VerifyAllMarkets(_, _, _, _)
VerifyAllMarkets(script_name, markets, failing, done) ==
    IF markets = <<>> THEN [raised |-> FALSE, visited |-> done.visited, results |-> done.results]
    ELSE LET market == Head(markets)
             visited == Append(done.visited, market)
         IN IF market \notin failing \/ script_name = "analyze_liquidation_cascades.py"
            THEN VerifyAllMarkets(script_name, Tail(markets), failing,
                                  [visited |-> visited, results |-> Append(done.results, market)])
            ELSE IF script_name = "verify_protocol_solvency.py"
            THEN VerifyAllMarkets(script_name, Tail(markets), failing,
                                  [visited |-> visited, results |-> done.results])
            ELSE [raised |-> TRUE, visited |-> visited, results |-> done.results]

\* main and run: the parser, the loop, the report and the results file, and
\* the exit status.
ReportRun(script_name, cmd, count, failing) ==
    IF cmd.all /\ ~HasAllFlag(script_name)
    THEN [exit |-> 2, visited |-> <<>>, results |-> <<>>, saved |-> FALSE]
    ELSE LET markets == MarketsToVerify(script_name, SampleSize(cmd.sample), count)
             loop == VerifyAllMarkets(script_name, markets, failing,
                                      [visited |-> <<>>, results |-> <<>>])
         IN [exit |-> IF loop.raised THEN 1 ELSE 0,
             visited |-> loop.visited,
             results |-> loop.results,
             saved |-> ~loop.raised]

\* A run of one of the four reporting scripts.
RunReportScript ==
    \E script_name \in Range(Phase2Scripts) :
        Finish(script_name, Gives(ReportRun(script_name, args.cmd, args.count, args.failing)), <<>>)

\* run_script: subprocess.run(check=True) raises CalledProcessError on any
\* exit status but 0, and run_script answers False.
RunScript(status) == status = 0

\* The loop over `scripts` if it stopped at the first failure.
RunScriptsUntilFailure(scripts, exits) ==
    LET last == IF \E k \in 1..Len(scripts) : ~RunScript(exits[k])
                THEN CHOOSE k \in 1..Len(scripts) :
                        ~RunScript(exits[k]) /\ \A j \in 1..(k - 1) : RunScript(exits[j])
                ELSE Len(scripts)
    IN [k \in 1..last |-> [script |-> scripts[k], success |-> RunScript(exits[k])]]

\* verify_all.py lines 56-58, verify_all_phase2.py lines 91-93: the loop over
\* `scripts`; exits[k] is the status the k-th child process ends with.
RunScripts(scripts, exits) ==
    [k \in 1..Len(scripts) |-> [script |-> scripts[k], success |-> RunScript(exits[k])]]

\* verify_all.py lines 65-70 and 86: all_passed and the exit status.
SuiteExit(results) ==
    IF \A k \in 1..Len(results) : results[k].success THEN 0 ELSE 1

\* verify_all_phase2.py lines 70-75: the arguments handed to every script.
ScriptArgs(cmd) == IF cmd.all THEN <<>> ELSE <<"--sample", cmd.sample>>

\* verify_all.py, main.
VerifyAll ==
    LET results == RunScripts(Phase1Scripts, args.exits)
    IN Finish("verify_all.py",
              Gives([started |-> results, script_args |-> <<>>, exit |-> SuiteExit(results)]),
              <<>>)

\* verify_all_phase2.py, main.
VerifyAllPhase2 ==
    LET results == RunScripts(Phase2Scripts, args.exits)
    IN Finish("verify_all_phase2.py",
              Gives([started |-> results, script_args |-> ScriptArgs(args.cmd),
                     exit |-> SuiteExit(results)]),
              <<>>)

\* verify_position_lifecycle.py lines 154-271: verify_market_lifecycle on the
\* ids of the four event queries and of getAllActivePositionIds.
VerifyMarketLifecycle ==
    LET created_ids == args.created
        closed_ids == args.closed
        price_liquidated_ids == args.price_liquidated
        funding_liquidated_ids == args.funding_liquidated
        active_ids == args.active
        settled_ids == closed_ids \cup price_liquidated_ids \cup funding_liquidated_ids
        expected_open_ids == created_ids \ settled_ids
        zombie_positions == expected_open_ids \ active_ids
        ghost_positions == active_ids \ created_ids
    IN Finish("verify_market_lifecycle",
              Gives([counts |-> [created |-> Cardinality(created_ids),
                                 closed |-> Cardinality(closed_ids),
                                 price_liquidated |-> Cardinality(price_liquidated_ids),
                                 funding_liquidated |-> Cardinality(funding_liquidated_ids),
                                 total_settled |-> Cardinality(settled_ids),
                                 expected_open |-> Cardinality(expected_open_ids),
                                 actual_open |-> Cardinality(active_ids)],
                     verification |->
                        [lifecycle_complete |-> Cardinality(zombie_positions) = 0
                                                /\ Cardinality(ghost_positions) = 0,
                         zombie_positions |-> Cardinality(zombie_positions),
                         ghost_positions |-> Cardinality(ghost_positions)]]),
              <<>>)

\* analyze_liquidation_cascades.py line 197: long_levels[:20]
MaxLevels == 20

\* analyze_liquidation_cascades.py line 317: all_cascades[:10]
TopCascades == 10

\* Lines 197-215: one zone per price level whose getLiquidationMappingsFromPrice
\* call answers; levels[k] is the number of positions it answers with, or None
\* when the call raises. A zone is named by its direction and its level.
RECURSIVE Zones(_, _, _)
Zones(levels, direction, k) ==
    IF k > Len(levels) THEN <<>>
    ELSE (IF levels[k] = None THEN <<>>
          ELSE <<[level |-> k, position_count |-> levels[k][1], direction |-> direction]>>)
         \o Zones(levels, direction, k + 1)

\* list.sort(key=position_count, reverse=True): stable, largest first.
RECURSIVE InsertByCount(_, _)
InsertByCount(zone, sortedZones) ==
    IF sortedZones = <<>> THEN <<zone>>
    ELSE IF zone.position_count >= Head(sortedZones).position_count
         THEN <<zone>> \o sortedZones
         ELSE <<Head(sortedZones)>> \o InsertByCount(zone, Tail(sortedZones))

RECURSIVE SortByCount(_)
SortByCount(zones) ==
    IF zones = <<>> THEN <<>>
    ELSE InsertByCount(Head(zones), SortByCount(Tail(zones)))

\* Lines 176-224 and 226-270: analyze_long_cascades, analyze_short_cascades.
AnalyzeCascades(levels, direction) ==
    SortByCount(Zones(PySlice(levels, 0, MaxLevels), direction, 1))

\* Lines 272-354: analyze_market.
AnalyzeMarket ==
    LET long_cascades == AnalyzeCascades(args.long_levels, "long")
        short_cascades == AnalyzeCascades(args.short_levels, "short")
        all_cascades == long_cascades \o short_cascades
    IN Finish("analyze_market",
              Gives([total_cascade_zones |-> Len(all_cascades),
                     long_zones |-> Len(long_cascades),
                     short_zones |-> Len(short_cascades),
                     cascades |-> PySlice(all_cascades, 0, TopCascades)]),
              <<>>)

\* The command lines of a reporting script.
ReportCommands ==
    [sample : {None} \cup {Some(n) : n \in 0..MaxSample}, all : BOOLEAN]

\* The command lines of verify_all_phase2.py; --sample is 3 when not given.
Phase2Commands == [sample : {0, 2, 3}, all : BOOLEAN]

\* The exit statuses of a child process.
ExitStatuses == {0, 1, 2}

\* The sets of position ids of a market.
Ids == 1..MaxIds

\* The answers of a run of price levels: up to MaxRun levels that answer one
\* way, then up to MaxRun that answer another way.
LevelAnswers == {None, Some(1), Some(2)}
LevelLists ==
    {[k \in 1..(a + b) |-> IF k <= a THEN x ELSE y] :
        a \in 0..MaxRun, b \in 0..MaxRun, x \in LevelAnswers, y \in LevelAnswers}

\* The runs of the scripts: the script or function, and what it is given. The
\* registry has created the three markets verify_events_enhanced.py names, and
\* maybe more.
ScriptCalls ==
    (Range(Phase2Scripts) \X
        {c \in [cmd : ReportCommands, count : Len(sample_markets)..MaxMarkets,
                failing : SUBSET (1..MaxMarkets)] :
            \A m \in c.failing : m <= c.count})
    \cup ({"verify_all.py"} \X [exits : [1..Len(Phase1Scripts) -> ExitStatuses]])
    \cup ({"verify_all_phase2.py"} \X
            [exits : [1..Len(Phase2Scripts) -> ExitStatuses], cmd : Phase2Commands])
    \cup ({"verify_market_lifecycle"} \X
            [created : SUBSET Ids, closed : SUBSET Ids, price_liquidated : SUBSET Ids,
             funding_liquidated : SUBSET Ids, active : SUBSET Ids])
    \cup ({"analyze_market"} \X [long_levels : LevelLists, short_levels : LevelLists])

\* A script has just been started, with any of its inputs.
InitScripts ==
    /\ \E call \in ScriptCalls : pc = call[1] /\ args = call[2]
    /\ cache = <<>>
    /\ tip = 0
    /\ eventBlocks = {}
    /\ page = 1
    /\ all_events = <<>>
    /\ i = 0
    /\ all_results = <<>>
    /\ reqLog = <<>>
    /\ ret = NoRet
    /\ prev = <<>>
    /\ now = min_request_interval
    /\ last_request_time = 0
    /\ sendTimes = <<>>
    /\ inflight = FALSE
    /\ procs = [p \in Procs |-> NotCalled]
    /\ script = NoScript
    /\ files = <<>>
    /\ runs = <<>>

NextScripts ==
    \/ RunReportScript
    \/ VerifyAll
    \/ VerifyAllPhase2
    \/ VerifyMarketLifecycle
    \/ AnalyzeMarket

SpecScripts == InitScripts /\ [][NextScripts]_vars

---------------------------------------------------------------------------
(* Claims about the reporting scripts and the suite runners. *)

\* A run of a reporting script whose command line its parser accepted.
ReportRan == ret.op \in Range(Phase2Scripts) /\ ret.value.exit # 2

\* C22: with --sample N, N >= 0, a reporting script processes exactly the
\* first min(N, M) of the M markets, in event order, and with no --sample all
\* M of them; verify_all_phase2 hands --sample N to every script unless it was
\* given --all, and then no argument.
C22_SampleProcessesFirstN ==
    /\ (ReportRan /\ ret.args.failing = {}) =>
          LET cmd == ret.args.cmd
          IN /\ cmd.sample = None => ret.value.visited = Discovered(ret.args.count)
             /\ (cmd.sample # None /\ ~cmd.all) =>
                    ret.value.visited = Discovered(Min(cmd.sample[1], ret.args.count))
    /\ ret.op = "verify_all_phase2.py" =>
          ret.value.script_args = IF ret.args.cmd.all THEN <<>>
                                  ELSE <<"--sample", ret.args.cmd.sample>>

\* C23: in the per-market loop of verify_position_lifecycle, of
\* verify_events_enhanced and of verify_protocol_solvency a failure of the
\* query about one market is caught for that market: every market to verify is
\* still visited, the report is written and the script exits 0.
C23_MarketFailureIsCaught ==
    (/\ ReportRan
     /\ ret.op \in {"verify_position_lifecycle.py", "verify_events_enhanced.py",
                    "verify_protocol_solvency.py"}
     /\ ret.args.failing # {}) =>
        /\ ret.value.saved
        /\ ret.value.exit = 0
        /\ ret.value.visited =
              MarketsToVerify(ret.op, SampleSize(ret.args.cmd.sample), ret.args.count)

\* C24: whenever verify_market_lifecycle reports lifecycle_complete, its counts
\* satisfy created = closed + price_liquidated + funding_liquidated +
\* actual_open, whatever the five sets of ids are.
C24_CompleteLifecycleBalances ==
    (ret.op = "verify_market_lifecycle" /\ ret.value.verification.lifecycle_complete) =>
        ret.value.counts.created =
            ret.value.counts.closed + ret.value.counts.price_liquidated
            + ret.value.counts.funding_liquidated + ret.value.counts.actual_open

\* The scripts a suite lists.
ListedScripts(suite) == IF suite = "verify_all.py" THEN Phase1Scripts ELSE Phase2Scripts

\* C26: verify_all and verify_all_phase2 start every script of their list
\* exactly once, in list order, also after a script has failed; the suite
\* exits 0 exactly when every script exited 0, and 1 otherwise.
C26_SuiteRunsEveryScript ==
    ret.op \in {"verify_all.py", "verify_all_phase2.py"} =>
        /\ [k \in 1..Len(ret.value.started) |-> ret.value.started[k].script] = ListedScripts(ret.op)
        /\ ret.value.exit = (IF \A k \in DOMAIN ret.args.exits : ret.args.exits[k] = 0
                             THEN 0 ELSE 1)

\* C26's case: the first script of the suite fails and the last one passes.
C26_Witness ==
    /\ ret.op = "verify_all_phase2.py"
    /\ ret.args.exits[1] # 0
    /\ ret.args.exits[Len(Phase2Scripts)] = 0
    /\ Len(ret.value.started) = Len(Phase2Scripts)
    /\ ret.value.started[Len(Phase2Scripts)].success
    /\ ret.value.exit = 1

\* All zones of the market: one for every level, long or short, that answered.
AllZones(a) ==
    Range(Zones(a.long_levels, "long", 1)) \cup Range(Zones(a.short_levels, "short", 1))

\* C27: the `cascades` list analyze_market saves holds the (up to) 10 zones
\* with the largest position_count among all long and short zones of the
\* market: as many as there are, up to 10, and no zone left out has more
\* positions than a zone that is in the list.
C27_CascadesAreTheLargest ==
    ret.op = "analyze_market" =>
        LET saved == Range(ret.value.cascades)
        IN /\ saved \subseteq AllZones(ret.args)
           /\ Len(ret.value.cascades) = Min(TopCascades, Cardinality(AllZones(ret.args)))
           /\ \A z \in AllZones(ret.args) \ saved :
                \A s \in saved : s.position_count >= z.position_count

============================================================================
